---- MODULE Spec2Model ----
(***************************************************************************)
(* Decision-fusion and risk-sizing core of the trading bot:                *)
(*   src/src/ensemble.py      StrategyEnsemble (weights, signal fusion)     *)
(*   src/src/risk_manager.py  RiskManager (Kelly sizing, position ledger)   *)
(*                                                                         *)
(* Python floats are modelled as exact rationals <<n, d>> (d > 0, lowest   *)
(* terms).  A Python exception leaving a method is a result of kind        *)
(* "ZeroDivisionError"; a returned None is a result of kind "None".        *)
(***************************************************************************)
EXTENDS Integers, Sequences, FiniteSets, TLC

VARIABLES strategies, weights, open_positions, call, bot

vars == <<strategies, weights, open_positions, call, bot>>

(***************************************************************************)
(* Rational arithmetic (the float operators of the source).                *)
(***************************************************************************)
Abs(n) == IF n < 0 THEN -n ELSE n

RECURSIVE Gcd(_, _)
Gcd(a, b) == IF b = 0 THEN a ELSE Gcd(b, a % b)

Rat(n, d) ==
    LET s == IF d < 0 THEN -1 ELSE 1
        g == Gcd(Abs(n), Abs(d))
    IN  <<(s * n) \div g, (s * d) \div g>>

Whole(n) == <<n, 1>>
Pct(n) == Rat(n, 100)

Zero == <<0, 1>>
One == <<1, 1>>

RAdd(a, b) == Rat(a[1] * b[2] + b[1] * a[2], a[2] * b[2])
RSub(a, b) == Rat(a[1] * b[2] - b[1] * a[2], a[2] * b[2])
RMul(a, b) ==
    \* cross-reduce first so that intermediate products stay small
    LET g1 == Gcd(Abs(a[1]), b[2])
        g2 == Gcd(Abs(b[1]), a[2])
    IN  Rat((a[1] \div g1) * (b[1] \div g2), (a[2] \div g2) * (b[2] \div g1))
RDiv(a, b) == RMul(a, Rat(b[2], b[1]))      \* caller guarantees b # 0
RLt(a, b) == a[1] * b[2] < b[1] * a[2]
RLe(a, b) == a[1] * b[2] <= b[1] * a[2]
RGt(a, b) == RLt(b, a)
RGe(a, b) == RLe(b, a)
RMax(a, b) == IF RGt(b, a) THEN b ELSE a    \* Python max(a, b)
RMin(a, b) == IF RLt(b, a) THEN b ELSE a    \* Python min(a, b)
RAbs(a) == <<Abs(a[1]), a[2]>>

\* Python round(x, 2): nearest multiple of 0.01, ties to even
Round2(a) ==
    LET n == a[1] * 100
        q == n \div a[2]
        r == n % a[2]
        up == \/ 2 * r > a[2]
              \/ 2 * r = a[2] /\ q % 2 = 1
    IN  Rat(IF up THEN q + 1 ELSE q, 100)

RECURSIVE RSum(_, _)
\* sum(f[k] for k in S)
RSum(f, S) ==
    IF S = {} THEN Zero
    ELSE LET k == CHOOSE x \in S : TRUE
         IN  RAdd(f[k], RSum(f, S \ {k}))

(***************************************************************************)
(* Results of a call.                                                      *)
(***************************************************************************)
None == [kind |-> "None", val |-> Zero]
Raised == [kind |-> "ZeroDivisionError", val |-> Zero]
Value(v) == [kind |-> "value", val |-> v]

(***************************************************************************)
(* RiskManager configuration (src/src/risk_manager.py, __init__ defaults). *)
(***************************************************************************)
max_bet_amount == 100
min_bet_amount == 10
kelly_fraction == Pct(25)
max_portfolio_risk == Pct(30)
\* hard-coded thresholds of calculate_bet_size and should_limit_orders
min_edge == Pct(5)
max_positions == 20

(***************************************************************************)
(* RiskManager: position ledger.                                           *)
(***************************************************************************)
\* market.get('probability', 0.5)
market_probability(market) ==
    IF "probability" \in DOMAIN market THEN market.probability ELSE Pct(50)

\* pos.get('amount', 0)
position_amount(pos) ==
    IF "amount" \in DOMAIN pos THEN pos.amount ELSE Zero

RECURSIVE get_current_risk(_)
\* sum(pos.get('amount', 0) for pos in self.open_positions)
get_current_risk(positions) ==
    IF positions = <<>> THEN Zero
    ELSE RAdd(position_amount(Head(positions)), get_current_risk(Tail(positions)))

check_portfolio_risk(new_bet, balance, positions) ==
    LET current_risk == get_current_risk(positions)
        total_risk == RAdd(current_risk, new_bet)
        max_risk == RMul(max_portfolio_risk, balance)
    IN  RLe(total_risk, max_risk)

(***************************************************************************)
(* RiskManager.calculate_bet_size, step by step.                           *)
(***************************************************************************)
signal_edge(signal, market_prob) ==
    IF signal.direction = "YES"
    THEN RSub(signal.probability, market_prob)
    ELSE RSub(market_prob, signal.probability)

signal_win_prob(signal) ==
    IF signal.direction = "YES"
    THEN signal.probability
    ELSE RSub(One, signal.probability)

\* slip: the losing probability of a YES bet is used for both directions
signal_lose_prob_of_yes(signal) == RSub(One, signal.probability)

signal_lose_prob(signal) ==
    IF signal.direction = "YES"
    THEN RSub(One, signal.probability)
    ELSE signal.probability

\* numerator and denominator of win_odds (the payout ratio)
win_odds_num(signal, market_prob) ==
    IF signal.direction = "YES" THEN RSub(One, market_prob) ELSE market_prob

win_odds_den(signal, market_prob) ==
    IF signal.direction = "YES" THEN market_prob ELSE RSub(One, market_prob)

\* if edge < 0.05: return None
edge_too_small(edge) == RLt(edge, min_edge)

\* slip: the division by the odds is left out
kelly_criterion_undivided(win_prob, lose_prob, win_odds) ==
    RSub(RMul(win_prob, win_odds), lose_prob)

\* f = (p * odds - q) / odds
kelly_criterion(win_prob, lose_prob, win_odds) ==
    RDiv(RSub(RMul(win_prob, win_odds), lose_prob), win_odds)

\* slip: scaled by the doubt instead of the confidence
confidence_adjusted_by_doubt(kelly_bet, confidence) ==
    RMul(kelly_bet, RSub(One, confidence))

\* kelly_bet * signal.confidence
confidence_adjusted(kelly_bet, confidence) == RMul(kelly_bet, confidence)

\* slip: the upper limit is not applied
apply_limits_floor_only(bet) == RMax(Whole(min_bet_amount), bet)

\* max(self.min_bet_amount, min(self.max_bet_amount, confidence_adjusted_bet))
apply_limits(bet) == RMax(Whole(min_bet_amount), RMin(Whole(max_bet_amount), bet))

\* slip: a bet over the ceiling is dropped instead of shrunk
fit_portfolio_or_drop(bet_size, balance, positions) ==
    IF ~check_portfolio_risk(bet_size, balance, positions) THEN Zero ELSE bet_size

\* the "Check portfolio risk" block: shrink the bet to the remaining room
fit_portfolio(bet_size, balance, positions) ==
    IF ~check_portfolio_risk(bet_size, balance, positions)
    THEN LET max_additional_risk ==
                 RSub(RMul(max_portfolio_risk, balance), get_current_risk(positions))
         IN  RMin(bet_size, max_additional_risk)
    ELSE bet_size

\* slip: <= for <, a bet of exactly min_bet_amount is rejected
final_validation_strict(bet_size) ==
    IF RLe(bet_size, Whole(min_bet_amount)) THEN None ELSE Value(Round2(bet_size))

\* "Final validation" and the rounded return value
final_validation(bet_size) ==
    IF RLt(bet_size, Whole(min_bet_amount)) THEN None ELSE Value(Round2(bet_size))

\* slip: no bet is sized once max_positions positions are open
bet_size_result_capped(signal, market, balance, positions) ==
    LET market_prob == market_probability(market)
        edge == signal_edge(signal, market_prob)
        win_prob == signal_win_prob(signal)
        lose_prob == signal_lose_prob(signal)
        num == win_odds_num(signal, market_prob)
        den == win_odds_den(signal, market_prob)
    IN  IF Len(positions) >= max_positions THEN None
        ELSE IF den = Zero THEN Raised
        ELSE IF edge_too_small(edge) THEN None
        ELSE IF num = Zero THEN Raised
        ELSE LET win_odds == RDiv(num, den)
                 kelly_fraction_full == kelly_criterion(win_prob, lose_prob, win_odds)
             IN  IF RLe(kelly_fraction_full, Zero) THEN None
                 ELSE LET kelly_bet == RMul(RMul(kelly_fraction_full, kelly_fraction), balance)
                          bet == apply_limits(confidence_adjusted(kelly_bet, signal.confidence))
                      IN  final_validation(fit_portfolio(bet, balance, positions))

bet_size_result(signal, market, balance, positions) ==
    LET market_prob == market_probability(market)
        edge == signal_edge(signal, market_prob)
        win_prob == signal_win_prob(signal)
        lose_prob == signal_lose_prob(signal)
        num == win_odds_num(signal, market_prob)
        den == win_odds_den(signal, market_prob)
    IN  IF den = Zero THEN Raised                       \* win_odds = num / den
        ELSE IF edge_too_small(edge) THEN None
        ELSE IF num = Zero THEN Raised                  \* ... / win_odds
        ELSE LET win_odds == RDiv(num, den)
                 kelly_fraction_full == kelly_criterion(win_prob, lose_prob, win_odds)
             IN  IF RLe(kelly_fraction_full, Zero) THEN None
                 ELSE LET kelly_bet == RMul(RMul(kelly_fraction_full, kelly_fraction), balance)
                          bet == apply_limits(confidence_adjusted(kelly_bet, signal.confidence))
                      IN  final_validation(fit_portfolio(bet, balance, positions))

calculate_bet_size(signal, market, balance) ==
    /\ call' = [op |-> "calculate_bet_size", signal |-> signal, market |-> market,
                balance |-> balance,
                ret |-> bet_size_result(signal, market, balance, open_positions)]
    /\ UNCHANGED <<bot, strategies, weights, open_positions>>

add_position(position) ==
    /\ open_positions' = Append(open_positions, position)
    /\ call' = [op |-> "add_position", position |-> position]
    /\ UNCHANGED <<bot, strategies, weights>>

\* slip: == for !=, the matching entries are the ones kept
remove_position_keeping_matches(market_id) ==
    /\ open_positions' = SelectSeq(open_positions, LAMBDA pos : pos.market_id = market_id)
    /\ call' = [op |-> "remove_position", market_id |-> market_id]
    /\ UNCHANGED <<bot, strategies, weights>>

remove_position(market_id) ==
    /\ open_positions' = SelectSeq(open_positions, LAMBDA pos : pos.market_id # market_id)
    /\ call' = [op |-> "remove_position", market_id |-> market_id]
    /\ UNCHANGED <<bot, strategies, weights>>

\* slip: positions are counted per market
get_portfolio_metrics_per_market(balance, positions) ==
    LET total_exposure == get_current_risk(positions)
        num_positions == Cardinality({positions[i].market_id : i \in 1..Len(positions)})
    IN  [total_exposure |-> total_exposure,
         exposure_ratio |-> IF RGt(balance, Zero) THEN RDiv(total_exposure, balance) ELSE Zero,
         num_positions |-> num_positions,
         avg_position_size |-> IF num_positions > 0
                               THEN RDiv(total_exposure, Whole(num_positions)) ELSE Zero,
         available_capital |-> RSub(balance, total_exposure)]

get_portfolio_metrics(balance, positions) ==
    LET total_exposure == get_current_risk(positions)
        num_positions == Len(positions)
    IN  [total_exposure |-> total_exposure,
         exposure_ratio |-> IF RGt(balance, Zero) THEN RDiv(total_exposure, balance) ELSE Zero,
         num_positions |-> num_positions,
         avg_position_size |-> IF num_positions > 0
                               THEN RDiv(total_exposure, Whole(num_positions)) ELSE Zero,
         available_capital |-> RSub(balance, total_exposure)]

\* a call of get_portfolio_metrics by the orchestrator or a test
portfolio_metrics(balance) ==
    /\ call' = [op |-> "get_portfolio_metrics", balance |-> balance,
                ret |-> get_portfolio_metrics(balance, open_positions)]
    /\ UNCHANGED <<bot, strategies, weights, open_positions>>

\* if metrics['exposure_ratio'] > self.max_portfolio_risk: return True
exposure_over_limit(metrics) == RGt(metrics.exposure_ratio, max_portfolio_risk)

\* slip: > for >=, the cap itself is allowed
too_many_positions_strict(metrics) == metrics.num_positions > max_positions

\* if metrics['num_positions'] >= 20: return True
too_many_positions(metrics) == metrics.num_positions >= max_positions

limit_orders_result(balance, positions) ==
    LET metrics == get_portfolio_metrics(balance, positions)
    IN  IF exposure_over_limit(metrics) THEN TRUE
        ELSE IF too_many_positions(metrics) THEN TRUE
        ELSE FALSE

should_limit_orders(balance) ==
    /\ call' = [op |-> "should_limit_orders", balance |-> balance,
                ret |-> limit_orders_result(balance, open_positions)]
    /\ UNCHANGED <<bot, strategies, weights, open_positions>>

(***************************************************************************)
(* StrategyEnsemble (src/src/ensemble.py).                                 *)
(* A dict is a function on its key set; the empty dict and None are both   *)
(* falsy for "weights or {...}" and are both written EmptyDict.            *)
(***************************************************************************)
EmptyDict == [k \in {} |-> Zero]

\* {s.name: 1.0 / len(strategies) for s in strategies}
uniform_weights(names) == [k \in names |-> Rat(1, Cardinality(names))]

\* _normalize_weights
normalize_weights(w) ==
    LET total == RSum(w, DOMAIN w)
    IN  IF RGt(total, Zero) THEN [k \in DOMAIN w |-> RDiv(w[k], total)] ELSE w

\* __init__: self.weights = weights or {...}; self._normalize_weights()
init_weights(names, weights_arg) ==
    normalize_weights(IF DOMAIN weights_arg # {} THEN weights_arg
                      ELSE uniform_weights(names))

\* self.weights.get(name, 0)
weights_get(w, name) == IF name \in DOMAIN w THEN w[name] ELSE Zero

\* slip: the confidence is left out of the effective weight
effective_weight_without_confidence(w, name, signal) == weights_get(w, name)

\* weight = self.weights.get(name, 0) * signal.confidence
effective_weight(w, name, signal) == RMul(weights_get(w, name), signal.confidence)

\* accumulators of the loop over signals.items()
total_weight(w, signals) ==
    RSum([n \in DOMAIN signals |-> effective_weight(w, n, signals[n])], DOMAIN signals)

\* slip: the probabilities are averaged by configured weight alone
weighted_prob_by_weight(w, signals) ==
    RSum([n \in DOMAIN signals |-> RMul(signals[n].probability, weights_get(w, n))],
         DOMAIN signals)

weighted_prob(w, signals) ==
    RSum([n \in DOMAIN signals |->
            RMul(signals[n].probability, effective_weight(w, n, signals[n]))],
         DOMAIN signals)

weighted_confidence(w, signals) ==
    RSum([n \in DOMAIN signals |->
            RMul(signals[n].confidence, effective_weight(w, n, signals[n]))],
         DOMAIN signals)

yes_votes(w, signals) ==
    RSum([n \in DOMAIN signals |->
            IF signals[n].direction = "YES"
            THEN effective_weight(w, n, signals[n]) ELSE Zero],
         DOMAIN signals)

\* slip: the NO votes are not scaled by confidence
no_votes_by_weight(w, signals) ==
    RSum([n \in DOMAIN signals |->
            IF signals[n].direction = "YES" THEN Zero ELSE weights_get(w, n)],
         DOMAIN signals)

no_votes(w, signals) ==
    RSum([n \in DOMAIN signals |->
            IF signals[n].direction = "YES"
            THEN Zero ELSE effective_weight(w, n, signals[n])],
         DOMAIN signals)

\* slip: >= for >, a tie resolves to YES
consensus_direction_tie_yes(yes, no) == IF RGe(yes, no) THEN "YES" ELSE "NO"

\* 'YES' if yes_votes > no_votes else 'NO'
consensus_direction(yes, no) == IF RGt(yes, no) THEN "YES" ELSE "NO"

\* if total_weight == 0: return None
no_total_weight(total) == total = Zero

\* _combine_signals; the reasoning text is diagnostic and left out
combine_result(w, signals) ==
    IF DOMAIN signals = {} THEN None
    ELSE LET total == total_weight(w, signals)
             yes == yes_votes(w, signals)
             no == no_votes(w, signals)
         IN  IF no_total_weight(total) THEN None
             ELSE [kind |-> "value",
                   val |-> [probability |-> RDiv(weighted_prob(w, signals), total),
                            confidence |-> RDiv(weighted_confidence(w, signals), total),
                            direction |-> consensus_direction(yes, no),
                            strength |-> RDiv(RAbs(RSub(yes, no)), total)]]

\* slip: the effective weight of each signal is stored back in the weight map
combine_signals_storing_weights(signals) ==
    /\ weights' = [n \in DOMAIN weights \cup DOMAIN signals |->
                      IF n \in DOMAIN signals
                      THEN effective_weight(weights, n, signals[n]) ELSE weights[n]]
    /\ call' = [op |-> "combine_signals", signals |-> signals,
                ret |-> combine_result(weights, signals)]
    /\ UNCHANGED <<bot, strategies, open_positions>>

combine_signals(signals) ==
    /\ call' = [op |-> "combine_signals", signals |-> signals,
                ret |-> combine_result(weights, signals)]
    /\ UNCHANGED <<bot, strategies, weights, open_positions>>

\* slip: the minimum score of 0.1 is not applied
performance_score_unfloored(perf) ==
    IF perf.total_trades > 0
    THEN RAdd(RMul(perf.win_rate, Rat(6, 10)),
              RMul(RDiv(perf.total_return, Whole(perf.total_trades)), Rat(4, 10)))
    ELSE Rat(5, 10)

\* score of one entry of performance_data
performance_score(perf) ==
    IF perf.total_trades > 0
    THEN RMax(Rat(1, 10),
              RAdd(RMul(perf.win_rate, Rat(6, 10)),
                   RMul(RDiv(perf.total_return, Whole(perf.total_trades)), Rat(4, 10))))
    ELSE Rat(5, 10)

\* scores = {name: score for name in performance_data if name in self.strategies}
performance_scores(names, performance_data) ==
    [n \in DOMAIN performance_data \cap names |-> performance_score(performance_data[n])]

updated_weights(w, names, performance_data) ==
    LET scores == performance_scores(names, performance_data)
        total_score == RSum(scores, DOMAIN scores)
    IN  IF DOMAIN scores # {} /\ RGt(total_score, Zero)
        THEN [n \in DOMAIN scores |-> RDiv(scores[n], total_score)]
        ELSE w

update_weights(performance_data) ==
    /\ weights' = updated_weights(weights, DOMAIN strategies, performance_data)
    /\ call' = [op |-> "update_weights", performance_data |-> performance_data]
    /\ UNCHANGED <<bot, strategies, open_positions>>

enable_strategy(name, enabled) ==
    /\ strategies' = IF name \in DOMAIN strategies
                     THEN [strategies EXCEPT ![name].enabled = enabled]
                     ELSE strategies
    /\ call' = [op |-> "enable_strategy", name |-> name, enabled |-> enabled]
    /\ UNCHANGED <<bot, weights, open_positions>>

(***************************************************************************)
(* StrategyEnsemble.analyze.  What a strategy's own analyze does when it   *)
(* is invoked is an input: outcomes[name] is a signal, None or an          *)
(* exception.                                                              *)
(***************************************************************************)
NoSignal == [probability |-> Zero, confidence |-> Zero, direction |-> "NO"]
Produces(signal) == [kind |-> "signal", signal |-> signal]
Abstains == [kind |-> "None", signal |-> NoSignal]
Raises == [kind |-> "raise", signal |-> NoSignal]

\* if not strategy.enabled: continue
invoked_strategies(strats) == {n \in DOMAIN strats : strats[n].enabled}

\* slip: the enabled flag is not looked at
collected_signals_of_all(strats, outcomes) ==
    [n \in {m \in DOMAIN strats : outcomes[m].kind = "signal"} |-> outcomes[n].signal]

\* the loop of analyze: signals[name] = signal for every invoked strategy
\* that returns a signal; an exception is logged and the loop goes on
collected_signals(strats, outcomes) ==
    [n \in {m \in invoked_strategies(strats) : outcomes[m].kind = "signal"} |->
        outcomes[n].signal]

\* slip: no try/except around strategy.analyze
analyze_result_uncaught(w, strats, outcomes) ==
    IF \E n \in invoked_strategies(strats) : outcomes[n].kind = "raise"
    THEN [kind |-> "Exception", val |-> Zero]
    ELSE LET signals == collected_signals(strats, outcomes)
         IN  IF DOMAIN signals = {} THEN None ELSE combine_result(w, signals)

analyze_result(w, strats, outcomes) ==
    LET signals == collected_signals(strats, outcomes)
    IN  IF DOMAIN signals = {} THEN None ELSE combine_result(w, signals)

analyze(outcomes) ==
    /\ call' = [op |-> "analyze", outcomes |-> outcomes,
                invoked |-> invoked_strategies(strategies),
                ret |-> analyze_result(weights, strategies, outcomes)]
    /\ UNCHANGED <<bot, strategies, weights, open_positions>>

(***************************************************************************)
(* Construction: TradingBot builds one ensemble and one risk manager.      *)
(***************************************************************************)
StrategyNames == {"Momentum Trader", "Contrarian"}

\* the orchestrator between cycles: dry_run as given, no cycle under way
new_bot(dry_run) ==
    [dry_run |-> dry_run, pc |-> "idle", balance |-> Zero, open_markets |-> <<>>,
     cycles |-> 0]

Construct(names, weights_arg) ==
    /\ strategies = [n \in names |-> [enabled |-> TRUE]]
    /\ weights = init_weights(names, weights_arg)
    /\ open_positions = <<>>
    /\ call = [op |-> "init"]
    /\ bot = new_bot(FALSE)

(***************************************************************************)
(* Specification of the ensemble: any weight map at construction, then     *)
(* any sequence of fusions and reweights.                                  *)
(***************************************************************************)
WeightKeys == StrategyNames \cup {"momentum"}
WeightValues == {Zero, Whole(2), Whole(3)}
\* None, a map for both strategies, for one of them, and a map keyed by a
\* name that is not a strategy name
WeightArgKeys == {{}, StrategyNames, {"Contrarian"}, {"momentum"}}
WeightArgs == UNION {[K -> WeightValues] : K \in WeightArgKeys}

PerfEntries ==
    {[win_rate |-> Zero, total_return |-> Whole(-10), total_trades |-> 2],
     [win_rate |-> One, total_return |-> Whole(5), total_trades |-> 2],
     [win_rate |-> Zero, total_return |-> Zero, total_trades |-> 0]}
PerformanceData == UNION {[K -> PerfEntries] : K \in SUBSET WeightKeys}

EnsembleSignals ==
    [probability : {Pct(30), Pct(70)}, confidence : {Zero, Pct(50), One},
     direction : {"YES", "NO"}]
SignalMaps == UNION {[K -> EnsembleSignals] : K \in SUBSET StrategyNames}

InitEnsemble == \E weights_arg \in WeightArgs : Construct(StrategyNames, weights_arg)

Fuse == \E signals \in SignalMaps : combine_signals(signals)
Reweight == \E performance_data \in PerformanceData : update_weights(performance_data)

NextEnsemble == Fuse \/ Reweight

SpecEnsemble == InitEnsemble /\ [][NextEnsemble]_vars

(***************************************************************************)
(* Specification of the sizer: a short ledger of large positions and any   *)
(* sizing request.                                                         *)
(***************************************************************************)
MaxLedger == 3

MarketIds == {"market1", "market2"}
SizePositions ==
    {[market_id |-> "market1", amount |-> Whole(200)],
     [market_id |-> "market2", amount |-> Whole(80)],
     [market_id |-> "market1", amount |-> Whole(15)]}
SizeSignals ==
    [probability : {Pct(2), Pct(52), Pct(55), Pct(70)},
     confidence : {Zero, Pct(10), Pct(80)},
     direction : {"YES", "NO"}]
SizeMarkets ==
    {[probability |-> m] : m \in {Zero, Pct(30), Pct(50), One}} \cup {EmptyDict}
SizeBalances == {Whole(1000), Whole(100)}

InitRisk == Construct(StrategyNames, EmptyDict)

Add == \E position \in SizePositions :
          Len(open_positions) < MaxLedger /\ add_position(position)
Remove == \E market_id \in MarketIds : remove_position(market_id)
Size == \E signal \in SizeSignals, market \in SizeMarkets, balance \in SizeBalances :
          calculate_bet_size(signal, market, balance)
Limit == \E balance \in SizeBalances : should_limit_orders(balance)

NextSize == Add \/ Remove \/ Size \/ Limit

SpecSize == InitRisk /\ [][NextSize]_vars

(***************************************************************************)
(* Specification of the order limiter: a ledger that can reach the         *)
(* position cap, built from few position values.                           *)
(***************************************************************************)
MaxLimitLedger == 21
MaxLimitExposure == 400

LimitPositions ==
    {[market_id |-> "market1", amount |-> Whole(10)],
     [market_id |-> "market1", amount |-> Whole(200)],
     [market_id |-> "market2", amount |-> Whole(100)]}
LimitBalances == {Zero, Whole(1000), Whole(10000)}

AddLimited == \E position \in LimitPositions :
          /\ Len(open_positions) < MaxLimitLedger
          /\ RLe(RAdd(get_current_risk(open_positions), position.amount),
                 Whole(MaxLimitExposure))
          /\ add_position(position)
LimitOrders == \E balance \in LimitBalances : should_limit_orders(balance)

Metrics == \E balance \in LimitBalances : portfolio_metrics(balance)

NextLimit == AddLimited \/ Remove \/ LimitOrders \/ Metrics

SpecLimit == InitRisk /\ [][NextLimit]_vars

(***************************************************************************)
(* Specification of analyze: strategies are enabled and disabled and       *)
(* every strategy may produce a signal, abstain or fail.                   *)
(***************************************************************************)
AnalyzeWeightArgs ==
    {EmptyDict,
     [n \in {"Contrarian"} |-> Whole(3)],
     [n \in StrategyNames |-> IF n = "Contrarian" THEN Whole(3) ELSE Whole(2)]}
AnalyzeOutcomes ==
    {Abstains, Raises,
     Produces([probability |-> Pct(70), confidence |-> One, direction |-> "YES"]),
     Produces([probability |-> Pct(30), confidence |-> Pct(50), direction |-> "NO"]),
     Produces([probability |-> Pct(30), confidence |-> Zero, direction |-> "NO"])}

InitAnalyze == \E weights_arg \in AnalyzeWeightArgs : Construct(StrategyNames, weights_arg)

SetEnabled == \E name \in WeightKeys, enabled \in BOOLEAN : enable_strategy(name, enabled)
Analyze == \E outcomes \in [StrategyNames -> AnalyzeOutcomes] : analyze(outcomes)

NextAnalyze == SetEnabled \/ Analyze

SpecAnalyze == InitAnalyze /\ [][NextAnalyze]_vars

(***************************************************************************)
(* Construction of the risk manager from configuration values               *)
(* (src/src/risk_manager.py __init__, src/src/config.py validate,           *)
(* src/src/main.py main and TradingBot.__init__).                           *)
(***************************************************************************)
ValueError == [kind |-> "ValueError", val |-> Zero]

\* def __init__(self, max_bet_amount, min_bet_amount, kelly_fraction,
\*              max_portfolio_risk, ...): every argument is stored as given
RiskManager_fields(max_bet, min_bet, kelly, risk) ==
    [max_bet_amount |-> max_bet, min_bet_amount |-> min_bet,
     kelly_fraction |-> kelly, max_portfolio_risk |-> risk]

RiskManager_init(max_bet, min_bet, kelly, risk) ==
    /\ open_positions' = <<>>
    /\ call' = [op |-> "RiskManager",
                ret |-> Value(RiskManager_fields(max_bet, min_bet, kelly, risk))]
    /\ UNCHANGED <<bot, strategies, weights>>

\* if not cls.MANIFOLD_API_KEY: raise ValueError(...)   return True
validate(api_key) == IF api_key = "" THEN ValueError ELSE Value(TRUE)

\* main: Config.validate() (exit on ValueError), then TradingBot(Config),
\* which builds the risk manager from the configured values
main(api_key, max_bet, min_bet, kelly, risk) ==
    IF validate(api_key).kind = "ValueError"
    THEN /\ call' = [op |-> "main", ret |-> ValueError]
         /\ UNCHANGED <<bot, strategies, weights, open_positions>>
    ELSE /\ strategies' = [n \in StrategyNames |-> [enabled |-> TRUE]]
         /\ weights' = init_weights(StrategyNames, EmptyDict)
         /\ open_positions' = <<>>
         /\ call' = [op |-> "main",
                     ret |-> Value(RiskManager_fields(max_bet, min_bet, kelly, risk))]
         /\ bot' = new_bot(bot.dry_run)

ConfigBets == {Whole(100), Whole(10), Whole(0 - 5)}
ConfigFractions == {Pct(25), Whole(0 - 1)}
ConfigRisks == {Pct(30), Pct(0 - 30)}
ApiKeys == {"", "key"}

NewRiskManager ==
    \E max_bet \in ConfigBets, min_bet \in ConfigBets,
       kelly \in ConfigFractions, risk \in ConfigRisks :
          RiskManager_init(max_bet, min_bet, kelly, risk)
Main ==
    \E api_key \in ApiKeys, max_bet \in ConfigBets, min_bet \in ConfigBets,
       kelly \in ConfigFractions, risk \in ConfigRisks :
          main(api_key, max_bet, min_bet, kelly, risk)

NextConfig == NewRiskManager \/ Main \/ Add \/ Remove

SpecConfig == InitRisk /\ [][NextConfig]_vars

(***************************************************************************)
(* ManifoldClient._request and place_bet (src/src/manifold_client.py).     *)
(* What the API answers to each attempt is an input: "ok" (a JSON body),   *)
(* "empty" (success without content), "429", "http_error" (another HTTP    *)
(* error status) or "network_error" (a RequestException).  sent counts the *)
(* HTTP requests issued.                                                   *)
(***************************************************************************)
max_retries == 3

RECURSIVE request(_, _)
\* for attempt in range(max_retries): ...   return None
request(responses, attempt) ==
    IF attempt > max_retries THEN [ret |-> "None", sent |-> max_retries]
    ELSE IF responses[attempt] = "ok" THEN [ret |-> "json", sent |-> attempt]
    ELSE IF responses[attempt] = "empty" THEN [ret |-> "None", sent |-> attempt]
    ELSE IF responses[attempt] = "429" THEN request(responses, attempt + 1)
    ELSE IF responses[attempt] = "http_error" THEN [ret |-> "raise", sent |-> attempt]
    ELSE IF attempt = max_retries THEN [ret |-> "raise", sent |-> attempt]
    ELSE request(responses, attempt + 1)

\* slip: only an exception counts as a failure, a None result is taken as placed
place_bet_unless_raised(responses) ==
    LET result == request(responses, 1)
    IN  [placed |-> result.ret # "raise", sent |-> result.sent]

\* result = self._request('POST', '/v0/bet', json=data); except Exception: return None
place_bet(responses) ==
    LET result == request(responses, 1)
    IN  [placed |-> result.ret = "json", sent |-> result.sent]

(***************************************************************************)
(* TradingBot.run_once and _analyze_and_trade (src/src/main.py).  A cycle  *)
(* is the start of run_once (fetch, balance, limit check), one step per    *)
(* open market, and _update_performance_metrics after the loop.            *)
(***************************************************************************)
\* slip: a division error of the sizing is taken as a rejection
trade_outcome_swallowing_error(w, strats, positions, dry_run, balance, market, outcomes, responses) ==
    LET signal == analyze_result(w, strats, outcomes)
        rejected == [signal |-> signal, bet_size |-> None, sent |-> 0,
                     added |-> FALSE, ret |-> "False"]
    IN  IF signal.kind = "None" THEN rejected
        ELSE LET bet_size == bet_size_result(signal.val, market, balance, positions)
             IN  IF bet_size.kind # "value" \/ bet_size.val = Zero
                 THEN rejected
                 ELSE IF dry_run
                 THEN [rejected EXCEPT !.bet_size = bet_size, !.ret = "True"]
                 ELSE LET result == place_bet(responses)
                      IN  [signal |-> signal, bet_size |-> bet_size,
                           sent |-> result.sent, added |-> result.placed,
                           ret |-> IF result.placed THEN "True" ELSE "False"]

\* if not signal / if not bet_size / dry_run / place_bet / add_position
trade_outcome(w, strats, positions, dry_run, balance, market, outcomes, responses) ==
    LET signal == analyze_result(w, strats, outcomes)
        rejected == [signal |-> signal, bet_size |-> None, sent |-> 0,
                     added |-> FALSE, ret |-> "False"]
    IN  IF signal.kind = "None" THEN rejected
        ELSE LET bet_size == bet_size_result(signal.val, market, balance, positions)
             IN  IF bet_size.kind = "ZeroDivisionError"
                 THEN [rejected EXCEPT !.bet_size = bet_size, !.ret = "raise"]
                 ELSE IF bet_size.kind = "None" \/ bet_size.val = Zero
                 THEN [rejected EXCEPT !.bet_size = bet_size]
                 ELSE IF dry_run
                 THEN [rejected EXCEPT !.bet_size = bet_size, !.ret = "True"]
                 ELSE LET result == place_bet(responses)
                      IN  [signal |-> signal, bet_size |-> bet_size,
                           sent |-> result.sent, added |-> result.placed,
                           ret |-> IF result.placed THEN "True" ELSE "False"]

\* slip: should_limit_orders is evaluated but the cycle goes on regardless
run_once_ignoring_limit(markets, balance) ==
    /\ bot.pc = "idle"
    /\ LET limited == balance.kind = "value"
                      /\ limit_orders_result(balance.val, open_positions)
       IN  /\ bot' = IF balance.kind = "None" THEN [bot EXCEPT !.cycles = @ + 1]
                     ELSE [bot EXCEPT !.cycles = @ + 1, !.balance = balance.val,
                                      !.pc = "markets", !.open_markets = markets]
           /\ call' = [op |-> "run_once", markets |-> markets, balance |-> balance,
                       limited |-> limited]
    /\ UNCHANGED <<strategies, weights, open_positions>>

\* the start of run_once: markets and balance are fetched; return if the
\* balance is None or should_limit_orders(balance)
run_once(markets, balance) ==
    /\ bot.pc = "idle"
    /\ LET limited == balance.kind = "value"
                      /\ limit_orders_result(balance.val, open_positions)
       IN  /\ bot' = IF balance.kind = "None" THEN [bot EXCEPT !.cycles = @ + 1]
                     ELSE IF limited
                     THEN [bot EXCEPT !.cycles = @ + 1, !.balance = balance.val]
                     ELSE [bot EXCEPT !.cycles = @ + 1, !.balance = balance.val,
                                      !.pc = "markets", !.open_markets = markets]
           /\ call' = [op |-> "run_once", markets |-> markets, balance |-> balance,
                       limited |-> limited]
    /\ UNCHANGED <<strategies, weights, open_positions>>

\* slip: remove_position(market_id) is called before add_position
analyze_and_trade_replacing_position(outcomes, responses) ==
    /\ bot.pc = "markets"
    /\ bot.open_markets # <<>>
    /\ LET market == Head(bot.open_markets)
           trade == trade_outcome(weights, strategies, open_positions, bot.dry_run,
                                  bot.balance, market, outcomes, responses)
       IN  /\ open_positions' =
                 IF trade.added
                 THEN Append(SelectSeq(open_positions,
                                       LAMBDA pos : pos.market_id # market.id),
                             [market_id |-> market.id, amount |-> trade.bet_size.val,
                              direction |-> trade.signal.val.direction])
                 ELSE open_positions
           /\ call' = [op |-> "_analyze_and_trade", market |-> market,
                       outcomes |-> outcomes, responses |-> responses,
                       signal |-> trade.signal, bet_size |-> trade.bet_size,
                       sent |-> trade.sent, ret |-> trade.ret]
    /\ bot' = [bot EXCEPT !.open_markets = Tail(@)]
    /\ UNCHANGED <<strategies, weights>>

\* one iteration of "for market in open_markets": _analyze_and_trade, whose
\* exceptions are caught by the loop
analyze_and_trade(outcomes, responses) ==
    /\ bot.pc = "markets"
    /\ bot.open_markets # <<>>
    /\ LET market == Head(bot.open_markets)
           trade == trade_outcome(weights, strategies, open_positions, bot.dry_run,
                                  bot.balance, market, outcomes, responses)
       IN  /\ open_positions' =
                 IF trade.added
                 THEN Append(open_positions,
                             [market_id |-> market.id, amount |-> trade.bet_size.val,
                              direction |-> trade.signal.val.direction])
                 ELSE open_positions
           /\ call' = [op |-> "_analyze_and_trade", market |-> market,
                       outcomes |-> outcomes, responses |-> responses,
                       signal |-> trade.signal, bet_size |-> trade.bet_size,
                       sent |-> trade.sent, ret |-> trade.ret]
    /\ bot' = [bot EXCEPT !.open_markets = Tail(@)]
    /\ UNCHANGED <<strategies, weights>>

\* slip: the metrics are collected but the weights are not updated
update_performance_metrics_without_reweight(strategy_perf) ==
    /\ bot.pc = "markets"
    /\ bot.open_markets = <<>>
    /\ call' = [op |-> "_update_performance_metrics", performance_data |-> strategy_perf]
    /\ bot' = [bot EXCEPT !.pc = "idle"]
    /\ UNCHANGED <<strategies, weights, open_positions>>

\* after the loop: self.ensemble.update_weights(self.ensemble.get_strategy_performance())
update_performance_metrics(strategy_perf) ==
    /\ bot.pc = "markets"
    /\ bot.open_markets = <<>>
    /\ weights' = updated_weights(weights, DOMAIN strategies, strategy_perf)
    /\ call' = [op |-> "_update_performance_metrics", performance_data |-> strategy_perf]
    /\ bot' = [bot EXCEPT !.pc = "idle"]
    /\ UNCHANGED <<strategies, open_positions>>

(***************************************************************************)
(* Specification of the trading cycles.  The bot starts fresh with the     *)
(* configured weights (the entries of Config.STRATEGY_WEIGHTS for the two   *)
(* strategies of the model), or is taken up later in its life, after       *)
(* cycles that reweighted uniformly and opened 19 minimum bets.            *)
(***************************************************************************)
MaxCycles == 2

STRATEGY_WEIGHTS ==
    [k \in {"momentum", "contrarian"} |-> IF k = "momentum" THEN Pct(25) ELSE Pct(15)]

RECURSIVE MinimumBets(_)
MinimumBets(n) ==
    IF n = 0 THEN <<>>
    ELSE Append(MinimumBets(n - 1),
                [market_id |-> "market1", amount |-> Whole(min_bet_amount),
                 direction |-> "YES"])

CycleMarketLists ==
    {<<>>,
     <<[id |-> "market1", probability |-> Pct(30)],
       [id |-> "market2", probability |-> Pct(30)]>>,
     <<[id |-> "market1", probability |-> Zero],
       [id |-> "market2", probability |-> One]>>}

CycleBalances ==
    {None, Value(Rat(100002, 100)), Value(Whole(100)), Value(Zero)}

CycleOutcomes ==
    {[n \in StrategyNames |->
         Produces([probability |-> Pct(70), confidence |-> One, direction |-> "YES"])],
     [n \in StrategyNames |-> Abstains],
     [n \in StrategyNames |->
         IF n = "Contrarian"
         THEN Produces([probability |-> Pct(10), confidence |-> Pct(10), direction |-> "NO"])
         ELSE Raises]}

CycleResponses ==
    {<<"ok", "ok", "ok">>, <<"429", "ok", "ok">>, <<"429", "429", "429">>,
     <<"http_error", "ok", "ok">>, <<"network_error", "network_error", "network_error">>,
     <<"empty", "ok", "ok">>}

NoHistory == [win_rate |-> Zero, total_return |-> Zero, total_trades |-> 0]
CyclePerformance ==
    {[n \in StrategyNames |-> NoHistory],
     [n \in StrategyNames |->
         IF n = "Contrarian" THEN NoHistory
         ELSE [win_rate |-> One, total_return |-> Whole(5), total_trades |-> 2]]}

InitCycle ==
    /\ strategies = [n \in StrategyNames |-> [enabled |-> TRUE]]
    /\ call = [op |-> "init"]
    /\ \/ /\ weights = init_weights(StrategyNames, STRATEGY_WEIGHTS)
          /\ open_positions = <<>>
          /\ \E dry_run \in BOOLEAN : bot = new_bot(dry_run)
       \/ /\ weights = uniform_weights(StrategyNames)
          /\ open_positions = MinimumBets(max_positions - 1)
          /\ bot = new_bot(FALSE)

StartCycle ==
    \E markets \in CycleMarketLists, balance \in CycleBalances :
        bot.cycles < MaxCycles /\ run_once(markets, balance)
Trade ==
    \E outcomes \in CycleOutcomes, responses \in CycleResponses :
        analyze_and_trade(outcomes, responses)
EndCycle == \E strategy_perf \in CyclePerformance : update_performance_metrics(strategy_perf)

NextCycle == StartCycle \/ Trade \/ EndCycle

SpecCycle == InitCycle /\ [][NextCycle]_vars

(***************************************************************************)
(* Properties of the ensemble, checked under SpecEnsemble.                 *)
(***************************************************************************)

\* C1: the weights sum to 1.0 after construction and after every
\* update_weights call, whatever weight map was passed.
C1_WeightsSumToOne == RSum(weights, DOMAIN weights) = One

\* The sum of configured weight x confidence over the supplied signals,
\* written out from the statement of the claims.
FusedMass(signals, direction) ==
    RSum([n \in DOMAIN signals |->
            IF signals[n].direction \in direction
            THEN RMul(IF n \in DOMAIN weights THEN weights[n] ELSE Zero,
                      signals[n].confidence)
            ELSE Zero],
         DOMAIN signals)

\* C2: _combine_signals returns None when the signal mapping is empty and
\* when the effective weights (weight x confidence) sum to 0, as they do
\* when every confidence is 0; in every other case it returns a signal.
C2_NoneIffEmptyOrZeroWeight ==
    call.op = "combine_signals" =>
        LET signals == call.signals
            total == FusedMass(signals, {"YES", "NO"})
        IN  /\ call.ret.kind \in {"None", "value"}
            /\ call.ret.kind = "None" <=> (DOMAIN signals = {} \/ total = Zero)
            /\ (\A n \in DOMAIN signals : signals[n].confidence = Zero)
                  => call.ret.kind = "None"

C2_Witness ==
    /\ call.op = "combine_signals"
    /\ DOMAIN call.signals = StrategyNames
    /\ \A n \in DOMAIN call.signals : call.signals[n].confidence = Zero
    /\ \E n \in DOMAIN weights : RGt(weights[n], Zero)
    /\ call.ret.kind = "None"

\* two signals of opposite direction and equal effective weight
OpposedTie(signals) ==
    /\ Cardinality(DOMAIN signals) = 2
    /\ \E a, b \in DOMAIN signals :
          /\ a # b
          /\ signals[a].direction = "YES"
          /\ signals[b].direction = "NO"
    /\ FusedMass(signals, {"YES"}) = FusedMass(signals, {"NO"})

\* C3 as stated: the direction is YES iff the YES mass is strictly greater
\* than the NO mass, and two opposed signals of equal effective weight
\* always fuse to a signal of direction NO.
C3_TieAlwaysFusesToNo ==
    call.op = "combine_signals" =>
        /\ call.ret.kind = "value" =>
              (call.ret.val.direction = "YES"
                  <=> RGt(FusedMass(call.signals, {"YES"}), FusedMass(call.signals, {"NO"})))
        /\ OpposedTie(call.signals) =>
              call.ret.kind = "value" /\ call.ret.val.direction = "NO"

\* C3 amended: every consensus has direction YES iff the YES mass is
\* strictly greater than the NO mass; two opposed signals of equal non-zero
\* effective weight fuse to direction NO, and of equal zero effective
\* weight to None.
C3_DirectionByWeightMass ==
    call.op = "combine_signals" =>
        /\ call.ret.kind = "value" =>
              (call.ret.val.direction = "YES"
                  <=> RGt(FusedMass(call.signals, {"YES"}), FusedMass(call.signals, {"NO"})))
        /\ OpposedTie(call.signals) =>
              IF FusedMass(call.signals, {"YES"}) = Zero
              THEN call.ret.kind = "None"
              ELSE call.ret.kind = "value" /\ call.ret.val.direction = "NO"

C3_Witness ==
    /\ call.op = "combine_signals"
    /\ OpposedTie(call.signals)
    /\ RGt(FusedMass(call.signals, {"YES"}), Zero)
    /\ \E a, b \in DOMAIN call.signals :
          RGt(call.signals[a].probability, Pct(50)) /\ call.signals[a].direction = "YES"
    /\ call.ret.kind = "value"
    /\ call.ret.val.direction = "NO"

(***************************************************************************)
(* Properties of calculate_bet_size, checked under SpecSize.  The          *)
(* quantities below are written out from the statement of the claims.      *)
(***************************************************************************)
Sized == call.op = "calculate_bet_size"

\* the market probability, the open exposure and the ceiling of the last call
MarketProb == market_probability(call.market)
OpenExposure == get_current_risk(open_positions)
Ceiling == RMul(max_portfolio_risk, call.balance)

\* the directional edge
DirectionalEdge ==
    IF call.signal.direction = "YES"
    THEN RSub(call.signal.probability, MarketProb)
    ELSE RSub(MarketProb, call.signal.probability)

\* the payout odds are defined (market probability not 0 for YES, not 1 for NO)
OddsDefined ==
    IF call.signal.direction = "YES" THEN MarketProb # Zero ELSE MarketProb # One

\* kelly = (win_prob x payout_odds - (1 - win_prob)) / payout_odds
ClaimedKelly ==
    LET win_prob == IF call.signal.direction = "YES"
                    THEN call.signal.probability
                    ELSE RSub(One, call.signal.probability)
        payout_odds == IF call.signal.direction = "YES"
                       THEN RDiv(RSub(One, MarketProb), MarketProb)
                       ELSE RDiv(MarketProb, RSub(One, MarketProb))
    IN  RDiv(RSub(RMul(win_prob, payout_odds), RSub(One, win_prob)), payout_odds)

\* the signal passes the edge check and the Kelly check
PassesChecks ==
    /\ OddsDefined
    /\ RGe(DirectionalEdge, Pct(5))
    /\ RGt(ClaimedKelly, Zero)

\* clamp(kelly x kelly_fraction x bankroll x confidence, min_bet, max_bet)
ClampedBet ==
    LET raw == RMul(RMul(RMul(ClaimedKelly, kelly_fraction), call.balance),
                    call.signal.confidence)
    IN  IF RLt(raw, Whole(min_bet_amount)) THEN Whole(min_bet_amount)
        ELSE IF RGt(raw, Whole(max_bet_amount)) THEN Whole(max_bet_amount)
        ELSE raw

\* the scenario of the spec: market 0.50, signal 0.70 YES, bankroll 1000
Scenario(confidence) ==
    /\ Sized
    /\ call.signal = [probability |-> Pct(70), confidence |-> confidence,
                      direction |-> "YES"]
    /\ MarketProb = Pct(50)
    /\ call.balance = Whole(1000)

\* C4: calculate_bet_size returns None whenever the directional edge is
\* below 0.05, for every confidence, bankroll and ledger.
C4_NoneBelowMinimumEdge ==
    (Sized /\ RLt(DirectionalEdge, Pct(5))) => call.ret.kind = "None"

\* the result of the last call had its signal carried this confidence
ResultAt(confidence) ==
    bet_size_result([call.signal EXCEPT !.confidence = confidence],
                    call.market, call.balance, open_positions)

\* C5: with everything else fixed, the bet is non-decreasing in the signal's
\* confidence: a higher confidence never turns a bet into None nor lowers it.
C5_MonotoneInConfidence ==
    Sized =>
        \A c \in {x.confidence : x \in SizeSignals} :
            LET other == ResultAt(c)
            IN  /\ (RLe(call.signal.confidence, c) /\ call.ret.kind = "value")
                      => other.kind = "value" /\ RLe(call.ret.val, other.val)
                /\ (RLe(c, call.signal.confidence) /\ other.kind = "value")
                      => call.ret.kind = "value" /\ RLe(other.val, call.ret.val)

C5_Witness ==
    /\ Sized
    /\ call.ret.kind = "value"
    /\ \E c \in {x.confidence : x \in SizeSignals} :
          /\ RLt(call.signal.confidence, c)
          /\ RLt(call.ret.val, ResultAt(c).val)

\* C6: every amount returned lies in [min_bet_amount, max_bet_amount].
C6_AmountWithinLimits ==
    (Sized /\ call.ret.kind = "value") =>
        /\ RGe(call.ret.val, Whole(min_bet_amount))
        /\ RLe(call.ret.val, Whole(max_bet_amount))

C6_Witness ==
    /\ Sized
    /\ call.ret.kind = "value"
    /\ call.ret.val = Whole(max_bet_amount)
    /\ call.signal.direction = "NO"
    /\ open_positions # <<>>

\* C7: when the open exposure plus the clamped bet exceeds the ceiling, the
\* bet is shrunk to the room left under the ceiling and not rejected; the
\* result is None exactly when that room is below min_bet_amount.  A bet of
\* 80 with bankroll 1000 gives 20.0 at exposure 280 and None at exposure 295.
C7_ShrunkToRemainingRoom ==
    /\ (Sized /\ PassesChecks /\ RGt(RAdd(OpenExposure, ClampedBet), Ceiling)) =>
          LET room == RSub(Ceiling, OpenExposure)
          IN  IF RLt(room, Whole(min_bet_amount))
              THEN call.ret.kind = "None"
              ELSE call.ret.kind = "value" /\ call.ret.val = Round2(room)
    /\ (Scenario(Pct(80)) /\ OpenExposure = Whole(280)) =>
          call.ret.kind = "value" /\ call.ret.val = Whole(20)
    /\ (Scenario(Pct(80)) /\ OpenExposure = Whole(295)) => call.ret.kind = "None"

C7_Witness ==
    /\ Scenario(Pct(80))
    /\ ClampedBet = Whole(80)
    /\ OpenExposure = Whole(280)
    /\ call.ret.kind = "value"
    /\ call.ret.val = Whole(20)

\* C8: when the signal passes the edge and Kelly checks and the ceiling is
\* not binding, the result is clamp(kelly x kelly_fraction x bankroll x
\* confidence, min_bet, max_bet) rounded to two decimals; for the scenario
\* with an empty ledger, confidence 0.80 gives 80.0 and 0.10 gives 10.0.
C8_ClampedKellyAmount ==
    /\ (Sized /\ PassesChecks /\ RLe(RAdd(OpenExposure, ClampedBet), Ceiling)) =>
          call.ret.kind = "value" /\ call.ret.val = Round2(ClampedBet)
    /\ (Scenario(Pct(80)) /\ open_positions = <<>>) =>
          call.ret.kind = "value" /\ call.ret.val = Whole(80)
    /\ (Scenario(Pct(10)) /\ open_positions = <<>>) =>
          call.ret.kind = "value" /\ call.ret.val = Whole(10)

C8_Witness ==
    /\ Sized
    /\ PassesChecks
    /\ MarketProb = Pct(30)
    /\ RLe(RAdd(OpenExposure, ClampedBet), Ceiling)
    /\ RGt(ClampedBet, Whole(min_bet_amount))
    /\ RLt(ClampedBet, Whole(max_bet_amount))
    /\ Round2(ClampedBet) # ClampedBet
    /\ call.ret.val = Round2(ClampedBet)

(***************************************************************************)
(* Properties of should_limit_orders, checked under SpecLimit.             *)
(***************************************************************************)
Limited == call.op = "should_limit_orders"

\* exposure_ratio = total_exposure / balance, and 0 without a balance
ExposureRatio ==
    IF RGt(call.balance, Zero) THEN RDiv(OpenExposure, call.balance) ELSE Zero

C10_LimitAtExactRiskLimit ==
    (/\ Limited
     /\ RGt(call.balance, Zero)
     /\ OpenExposure = RMul(max_portfolio_risk, call.balance)) => call.ret

(***************************************************************************)
(* Properties of update_weights, checked under SpecEnsemble.               *)
(***************************************************************************)
Reweighted == call.op = "update_weights"

\* the estimators of the ensemble that the performance mapping names
ScoredNames == DOMAIN call.performance_data \cap DOMAIN strategies

\* score = max(0.1, 0.6 x win_rate + 0.4 x total_return / total_trades),
\* and 0.5 without trades
ClaimedScore(name) ==
    LET perf == call.performance_data[name]
        raw == RAdd(RMul(Rat(6, 10), perf.win_rate),
                    RDiv(RMul(Rat(4, 10), perf.total_return),
                         Whole(IF perf.total_trades = 0 THEN 1 ELSE perf.total_trades)))
    IN  IF perf.total_trades = 0 THEN Rat(1, 2)
        ELSE IF RLt(raw, Rat(1, 10)) THEN Rat(1, 10) ELSE raw

\* C11: update_weights gives every estimator named in the performance
\* mapping the weight score / sum of scores, which is strictly positive
\* however bad the performance.
C11_WeightIsScoreShare ==
    (Reweighted /\ ScoredNames # {}) =>
        LET total == RSum([n \in ScoredNames |-> ClaimedScore(n)], ScoredNames)
        IN  \A n \in ScoredNames :
                /\ n \in DOMAIN weights
                /\ weights[n] = RDiv(ClaimedScore(n), total)
                /\ RGt(weights[n], Zero)

C11_Witness ==
    /\ Reweighted
    /\ ScoredNames = StrategyNames
    /\ \E n \in ScoredNames :
          /\ call.performance_data[n].total_trades > 0
          /\ RLt(call.performance_data[n].total_return, Zero)
          /\ weights[n] = Rat(1, 6)
    /\ \E n \in ScoredNames : call.performance_data[n].total_trades = 0

\* C12: update_weights never removes an estimator from the weight map:
\* every name with a weight before the call has a weight after it.
C12_ReweightKeepsEveryEntry ==
    [][call'.op = "update_weights" => DOMAIN weights \subseteq DOMAIN weights']_vars

(***************************************************************************)
(* Properties of enable_strategy and analyze, checked under SpecAnalyze.   *)
(***************************************************************************)
Analyzed == call.op = "analyze"

\* the strategies that are enabled
EnabledNames == {n \in DOMAIN strategies : strategies[n].enabled}

\* the fusion of the signals produced by the enabled strategies that did
\* not raise and did not return None
ExpectedConsensus ==
    LET producers == {n \in EnabledNames : call.outcomes[n].kind = "signal"}
    IN  combine_result(weights, [n \in producers |-> call.outcomes[n].signal])

\* C13: enable_strategy changes only the enabled flag of the named strategy
\* (nothing for an unknown name) and leaves the weights alone; analyze
\* invokes exactly the enabled strategies and fuses only their signals.
C13_EnableChangesOnlyTheFlag ==
    /\ [][/\ call'.op = "enable_strategy" =>
               /\ weights' = weights
               /\ DOMAIN strategies' = DOMAIN strategies
               /\ \A n \in DOMAIN strategies :
                     strategies'[n] = IF n = call'.name
                                      THEN [enabled |-> call'.enabled]
                                      ELSE strategies[n]
          /\ call'.op = "analyze" =>
               /\ weights' = weights
               /\ strategies' = strategies
         ]_vars
    /\ [](Analyzed =>
            /\ call.invoked = EnabledNames
            /\ \A n \in DOMAIN call.outcomes \ EnabledNames :
                  call.ret = analyze_result(weights, strategies,
                                            [call.outcomes EXCEPT ![n] = Abstains]))

C13_Witness ==
    /\ Analyzed
    /\ \E n \in DOMAIN strategies :
          /\ ~strategies[n].enabled
          /\ n \notin call.invoked
          /\ call.outcomes[n].kind = "signal"
          /\ call.outcomes[n].signal.direction = "YES"
          /\ RGt(weights_get(weights, n), Zero)
    /\ call.ret.kind = "value"
    /\ call.ret.val.direction = "NO"

\* C14: a strategy that raises is an abstention: analyze never raises, and
\* its result is the fusion of exactly the signals of the enabled
\* strategies that neither raised nor returned None.
C14_RaisingStrategyAbstains ==
    Analyzed =>
        /\ call.ret.kind \in {"None", "value"}
        /\ call.ret = ExpectedConsensus

C14_Witness ==
    /\ Analyzed
    /\ \E n \in EnabledNames : call.outcomes[n].kind = "raise"
    /\ \E n \in EnabledNames : call.outcomes[n].kind = "signal"
    /\ call.ret.kind = "value"

(***************************************************************************)
(* Properties of the position ledger, checked under SpecLimit.             *)
(***************************************************************************)
\* the indexes of the entries of the ledger that are not for market_id
KeptIndexes(market_id) ==
    {i \in 1..Len(open_positions) : open_positions[i].market_id # market_id}

\* the k-th smallest element of a set of indexes
NthIndex(S, k) == CHOOSE i \in S : Cardinality({j \in S : j <= i}) = k

\* C15: remove_position removes every entry of the market and no other,
\* keeping the order of the rest (nothing changes when no entry matches);
\* add_position appends exactly one entry.
C15_LedgerAddAndRemove ==
    [][/\ call'.op = "remove_position" =>
            LET kept == KeptIndexes(call'.market_id)
            IN  /\ Len(open_positions') = Cardinality(kept)
                /\ \A k \in 1..Cardinality(kept) :
                      open_positions'[k] = open_positions[NthIndex(kept, k)]
                /\ kept = 1..Len(open_positions) => open_positions' = open_positions
       /\ call'.op = "add_position" =>
            /\ Len(open_positions') = Len(open_positions) + 1
            /\ open_positions'[Len(open_positions')] = call'.position
            /\ \A i \in 1..Len(open_positions) : open_positions'[i] = open_positions[i]
      ]_vars

C15_Witness ==
    /\ call.op = "remove_position"
    /\ call.market_id = "market2"
    /\ Len(open_positions) = 3
    /\ open_positions[1].amount = Whole(200)
    /\ open_positions[2].amount = Whole(10)
    /\ \A i \in 1..Len(open_positions) : open_positions[i].market_id = "market1"

MetricsTaken == call.op = "get_portfolio_metrics"

\* the sum of the amounts of the open positions
LedgerTotal ==
    RSum([i \in 1..Len(open_positions) |-> open_positions[i].amount],
         1..Len(open_positions))

\* the metrics that do not depend on a division by the bankroll
MetricsFromLedger ==
    /\ call.ret.total_exposure = LedgerTotal
    /\ call.ret.num_positions = Len(open_positions)
    /\ call.ret.avg_position_size =
          IF open_positions = <<>> THEN Zero
          ELSE RDiv(LedgerTotal, Whole(Len(open_positions)))
    /\ call.ret.available_capital = RSub(call.balance, LedgerTotal)

\* C16 as stated: the metrics are derived from the current ledger, with
\* exposure_ratio = total_exposure / bankroll for every bankroll.
C16_MetricsWithRatioForEveryBankroll ==
    MetricsTaken =>
        /\ MetricsFromLedger
        /\ RMul(call.ret.exposure_ratio, call.balance) = LedgerTotal

\* C16 amended: exposure_ratio = total_exposure / bankroll when the bankroll
\* is positive and 0 otherwise; the other metrics as stated.
C16_MetricsFromCurrentLedger ==
    MetricsTaken =>
        /\ MetricsFromLedger
        /\ call.ret.exposure_ratio =
              IF RGt(call.balance, Zero) THEN RDiv(LedgerTotal, call.balance) ELSE Zero

C16_Witness ==
    /\ MetricsTaken
    /\ Len(open_positions) = 3
    /\ \E i, j \in 1..Len(open_positions) :
          i # j /\ open_positions[i].market_id = open_positions[j].market_id
    /\ call.balance = Whole(1000)
    /\ call.ret.exposure_ratio = Pct(22)
    /\ call.ret.avg_position_size = Rat(220, 3)

(***************************************************************************)
(* Properties of construction, checked under SpecConfig.                   *)
(***************************************************************************)
Constructed == call.op \in {"RiskManager", "main"} /\ call.ret.kind = "value"

\* C17: a risk manager is constructed only from validated configuration:
\* no constructed risk manager has a negative bound or min_bet > max_bet.
C17_ConstructedConfigIsValid ==
    Constructed =>
        /\ RGe(call.ret.val.max_bet_amount, Zero)
        /\ RGe(call.ret.val.min_bet_amount, Zero)
        /\ RGe(call.ret.val.kelly_fraction, Zero)
        /\ RGe(call.ret.val.max_portfolio_risk, Zero)
        /\ RLe(call.ret.val.min_bet_amount, call.ret.val.max_bet_amount)

(***************************************************************************)
(* Further properties of _combine_signals, checked under SpecEnsemble.     *)
(***************************************************************************)
Fused == call.op = "combine_signals"

\* C18: _combine_signals has no side effects: a call leaves the weights, the
\* enabled flags and the ledger as they were, and its result is the
\* consensus of its signals under the weight map as it is after the call, so
\* that a second call with the same signals returns the same consensus.
C18_FuseHasNoSideEffects ==
    /\ [][call'.op = "combine_signals" =>
             /\ weights' = weights
             /\ strategies' = strategies
             /\ open_positions' = open_positions
             /\ (Fused /\ call.signals = call'.signals) => call'.ret = call.ret]_vars
    /\ [](Fused => call.ret = combine_result(weights, call.signals))

C18_Witness ==
    /\ Fused
    /\ DOMAIN call.signals = StrategyNames
    /\ call.ret.kind = "value"
    /\ DOMAIN weights = StrategyNames
    /\ RGt(weights["Contrarian"], weights["Momentum Trader"])
    /\ RGt(weights["Momentum Trader"], Zero)

\* the names of the signals that carry a positive effective weight
PositiveVoters(signals) ==
    {n \in DOMAIN signals : RGt(FusedMass([m \in {n} |-> signals[m]], {"YES", "NO"}), Zero)}

\* C19: with non-negative weights and confidences in [0,1] the strength of
\* every consensus is in [0,1]; it is 1 exactly when all signals of positive
\* effective weight share one direction and 0 exactly when the YES mass
\* equals the NO mass.
C19_StrengthMeasuresAgreement ==
    (/\ Fused
     /\ call.ret.kind = "value"
     /\ \A n \in DOMAIN weights : RGe(weights[n], Zero)
     /\ \A n \in DOMAIN call.signals :
           RGe(call.signals[n].confidence, Zero) /\ RLe(call.signals[n].confidence, One))
    => LET strength == call.ret.val.strength
           voters == PositiveVoters(call.signals)
       IN  /\ RGe(strength, Zero) /\ RLe(strength, One)
           /\ strength = One <=>
                 \A a, b \in voters : call.signals[a].direction = call.signals[b].direction
           /\ strength = Zero <=>
                 FusedMass(call.signals, {"YES"}) = FusedMass(call.signals, {"NO"})

C19_Witness ==
    /\ Fused
    /\ call.ret.kind = "value"
    /\ call.ret.val.strength = One
    /\ \E a, b \in DOMAIN call.signals :
          call.signals[a].direction # call.signals[b].direction
    /\ Cardinality(PositiveVoters(call.signals)) = 1

(***************************************************************************)
(* The Kelly check of calculate_bet_size, checked under SpecSize.          *)
(***************************************************************************)
\* probabilities 0, 1/KellyGrid, ..., 1
KellyGrid == 20
GridProbabilities == {Rat(k, KellyGrid) : k \in 0..KellyGrid}

GridSignals ==
    [probability : GridProbabilities, confidence : {One}, direction : {"YES", "NO"}]

\* the full Kelly fraction the code computes for a signal and a market
\* probability strictly between 0 and 1
code_kelly(signal, market_prob) ==
    kelly_criterion(signal_win_prob(signal), signal_lose_prob(signal),
                    RDiv(win_odds_num(signal, market_prob),
                         win_odds_den(signal, market_prob)))

\* C20 as stated: there are inputs (looked for among the grid and the inputs
\* of the last call), with a market probability strictly between 0 and 1,
\* whose edge passes the edge check and whose full Kelly fraction is
\* nevertheless <= 0.
C20_KellyRejectsAfterEdgePasses ==
    Sized =>
        \E signal \in GridSignals \cup {call.signal},
           m \in (GridProbabilities \cup {MarketProb}) \ {Zero, One} :
              /\ ~edge_too_small(signal_edge(signal, m))
              /\ RLe(code_kelly(signal, m), Zero)

\* C20 amended: for a market probability strictly between 0 and 1, whenever
\* the edge passes the edge check the full Kelly fraction is positive (it is
\* edge / (1 - m) for YES and edge / m for NO), so the Kelly check rejects
\* nothing: a None result then comes from the shrink to the portfolio room.
C20_KellyPositiveWhenEdgePasses ==
    (/\ Sized
     /\ RGt(MarketProb, Zero) /\ RLt(MarketProb, One)
     /\ RGe(DirectionalEdge, Pct(5)))
    => /\ RGt(code_kelly(call.signal, MarketProb), Zero)
       /\ code_kelly(call.signal, MarketProb) =
             RDiv(DirectionalEdge,
                  IF call.signal.direction = "YES" THEN RSub(One, MarketProb) ELSE MarketProb)
       /\ call.ret.kind \in {"None", "value"}
       /\ call.ret.kind = "None" => RGt(RAdd(OpenExposure, ClampedBet), Ceiling)

C20_Witness ==
    /\ Sized
    /\ call.signal.direction = "YES"
    /\ call.signal.probability = Pct(55)
    /\ MarketProb = Pct(50)
    /\ DirectionalEdge = Pct(5)
    /\ code_kelly(call.signal, MarketProb) = Pct(10)
    /\ call.ret.kind = "value"

(***************************************************************************)
(* The consensus as a weighted mean, checked under SpecEnsemble.           *)
(***************************************************************************)
\* configured weight x confidence of one signal of the last call
EffectiveWeightOf(n) ==
    RMul(IF n \in DOMAIN weights THEN weights[n] ELSE Zero, call.signals[n].confidence)

\* the mean of a field of the signals of the last call, weighted by effective weight
WeightedMean(field) ==
    RDiv(RSum([n \in DOMAIN call.signals |->
                  RMul(call.signals[n][field], EffectiveWeightOf(n))],
              DOMAIN call.signals),
         RSum([n \in DOMAIN call.signals |-> EffectiveWeightOf(n)], DOMAIN call.signals))

\* C23: the probability and the confidence of a consensus are the means of
\* the signals' probabilities and confidences weighted by effective weight;
\* each lies between the least and the greatest value among the signals of
\* positive effective weight; a single signal of positive effective weight
\* fuses to its own probability, confidence and direction with strength 1.
C23_ConsensusIsWeightedMean ==
    (Fused /\ call.ret.kind = "value") =>
        LET voters == {n \in DOMAIN call.signals : RGt(EffectiveWeightOf(n), Zero)}
        IN  /\ call.ret.val.probability = WeightedMean("probability")
            /\ call.ret.val.confidence = WeightedMean("confidence")
            /\ \A field \in {"probability", "confidence"} :
                  \E lo, hi \in voters :
                     /\ RLe(call.signals[lo][field], call.ret.val[field])
                     /\ RLe(call.ret.val[field], call.signals[hi][field])
            /\ Cardinality(DOMAIN call.signals) = 1 =>
                  \A n \in DOMAIN call.signals :
                     /\ call.ret.val.probability = call.signals[n].probability
                     /\ call.ret.val.confidence = call.signals[n].confidence
                     /\ call.ret.val.direction = call.signals[n].direction
                     /\ call.ret.val.strength = One

C23_Witness ==
    /\ Fused
    /\ call.ret.kind = "value"
    /\ \E a, b \in DOMAIN call.signals :
          /\ RGt(EffectiveWeightOf(a), Zero) /\ RGt(EffectiveWeightOf(b), Zero)
          /\ EffectiveWeightOf(a) # EffectiveWeightOf(b)
          /\ RLt(call.signals[a].probability, call.ret.val.probability)
          /\ RLt(call.ret.val.probability, call.signals[b].probability)
          /\ RLt(call.signals[a].confidence, call.ret.val.confidence)

(***************************************************************************)
(* Low confidence and the minimum bet, checked under SpecSize.             *)
(***************************************************************************)
\* C30: low confidence alone never makes calculate_bet_size reject: for any
\* confidence in [0,1], if the edge is at least 0.05, the Kelly fraction is
\* positive and the room under the ceiling is at least min_bet_amount, the
\* result is an amount of at least min_bet_amount.
C30_LowConfidenceNeverRejects ==
    (/\ Sized
     /\ RGe(call.signal.confidence, Zero) /\ RLe(call.signal.confidence, One)
     /\ PassesChecks
     /\ RGe(RSub(Ceiling, OpenExposure), Whole(min_bet_amount)))
    => /\ call.ret.kind = "value"
       /\ RGe(call.ret.val, Whole(min_bet_amount))

C30_Witness ==
    /\ Sized
    /\ call.signal.confidence = Zero
    /\ PassesChecks
    /\ open_positions # <<>>
    /\ RGe(RSub(Ceiling, OpenExposure), Whole(min_bet_amount))
    /\ call.ret.kind = "value"
    /\ call.ret.val = Whole(min_bet_amount)

(***************************************************************************)
(* Properties of the trading cycle, checked under SpecCycle.               *)
(***************************************************************************)
Traded == call.op = "_analyze_and_trade"

\* the API accepts the bet: an attempt is answered with a JSON body after
\* attempts that were only rate limited or lost on the network
PlacementSucceeds(responses) ==
    \E k \in 1..3 :
        /\ responses[k] = "ok"
        /\ \A j \in 1..(k - 1) : responses[j] \in {"429", "network_error"}

\* the consensus of the strategies' outcomes under the current weights
CycleConsensus(outcomes) == analyze_result(weights, strategies, outcomes)

\* the amount calculate_bet_size gives for that consensus on a market
CycleSize(outcomes, market) ==
    IF CycleConsensus(outcomes).kind = "value"
    THEN bet_size_result(CycleConsensus(outcomes).val, market, bot.balance, open_positions)
    ELSE None

\* C21: a step of the cycle adds a position for its market exactly when the
\* fusion returned a consensus, the sizing returned an amount and the bet
\* was placed (never in dry-run mode); the position carries the market, the
\* amount returned by the sizing and the direction of the consensus.  In
\* every other case, and in the other steps of a cycle, the ledger is
\* unchanged.
C21_PositionIffBetPlaced ==
    [][IF call'.op = "_analyze_and_trade"
       THEN LET consensus == CycleConsensus(call'.outcomes)
                size == CycleSize(call'.outcomes, call'.market)
            IN  IF /\ ~bot.dry_run
                   /\ consensus.kind = "value"
                   /\ size.kind = "value"
                   /\ PlacementSucceeds(call'.responses)
                THEN open_positions' =
                        Append(open_positions,
                               [market_id |-> call'.market.id, amount |-> size.val,
                                direction |-> consensus.val.direction])
                ELSE open_positions' = open_positions
       ELSE open_positions' = open_positions]_vars

C21_Witness ==
    /\ Traded
    /\ call.ret = "True"
    /\ call.responses[1] = "429"
    /\ Len(open_positions) = 2
    /\ open_positions[1].direction = "YES"
    /\ open_positions[2] = [market_id |-> call.market.id, amount |-> call.bet_size.val,
                            direction |-> "NO"]

\* C22: for one approved bet the orchestrator issues at most one
\* bet-placing request to the trading API.
C22_AtMostOneBetRequest == Traded => call.sent <= 1

\* should_limit_orders holds for a bankroll and the current ledger: the
\* exposure is more than max_portfolio_risk of the bankroll, or there are at
\* least 20 open positions
OverLimitAt(balance) ==
    \/ RGt(balance, Zero) /\ RGt(LedgerTotal, RMul(Pct(30), balance))
    \/ Len(open_positions) >= 20

\* C24: when should_limit_orders is true at the start of a cycle, the cycle
\* ends there, leaving the ledger, the weights and the strategies as they
\* were; markets are analysed and weights updated only inside a cycle, and a
\* cycle is entered only by a start at which should_limit_orders is false.
C24_LimitedCycleDoesNothing ==
    [][/\ (/\ call'.op = "run_once"
           /\ call'.balance.kind = "value"
           /\ OverLimitAt(call'.balance.val))
          => /\ bot'.pc = "idle"
             /\ open_positions' = open_positions
             /\ weights' = weights
             /\ strategies' = strategies
       /\ call'.op \in {"_analyze_and_trade", "_update_performance_metrics"}
          => bot.pc = "markets"
       /\ (bot.pc = "idle" /\ bot'.pc = "markets")
          => /\ call'.op = "run_once"
             /\ call'.balance.kind = "value"
             /\ ~OverLimitAt(call'.balance.val)]_vars

C24_Witness ==
    /\ call.op = "run_once"
    /\ call.balance = Value(Whole(100))
    /\ call.limited
    /\ call.markets # <<>>
    /\ Len(open_positions) = max_positions - 1
    /\ bot.pc = "idle"
    /\ bot.cycles = 1

\* C25: a step that adds the amount just returned by calculate_bet_size to a
\* ledger whose exposure is at most max_portfolio_risk x bankroll leaves the
\* exposure at most max_portfolio_risk x bankroll.
C25_ExposureStaysUnderCeiling ==
    [][(/\ call'.op = "_analyze_and_trade"
        /\ Len(open_positions') = Len(open_positions) + 1
        /\ RGt(bot.balance, Zero)
        /\ RLe(LedgerTotal, RMul(max_portfolio_risk, bot.balance)))
       => RLe(RAdd(LedgerTotal, open_positions'[Len(open_positions')].amount),
              RMul(max_portfolio_risk, bot.balance))]_vars

\* the amount calculate_bet_size gives when the whole exposure of the ledger
\* is held in a single position
SizeOfMergedLedger(outcomes, market) ==
    IF CycleConsensus(outcomes).kind = "value"
    THEN bet_size_result(CycleConsensus(outcomes).val, market, bot.balance,
                         <<[market_id |-> "all", amount |-> LedgerTotal]>>)
    ELSE None

\* C26: the number of open positions is looked at only at the start of a
\* cycle: the sizing depends on the exposure of the ledger and not on how
\* many positions it holds, and every market of the cycle whose bet is
\* approved and placed adds a position, so that a cycle started with fewer
\* than 20 positions can end with more than 20.
C26_CapCheckedOnlyAtCycleStart ==
    [][call'.op = "_analyze_and_trade" =>
          LET size == SizeOfMergedLedger(call'.outcomes, call'.market)
          IN  /\ call'.bet_size = size
              /\ CycleSize(call'.outcomes, call'.market) = size
              /\ (~bot.dry_run /\ size.kind = "value"
                    /\ PlacementSucceeds(call'.responses))
                 => Len(open_positions') = Len(open_positions) + 1]_vars

C26_Witness ==
    /\ call.op = "_update_performance_metrics"
    /\ bot.pc = "idle"
    /\ bot.cycles = 1
    /\ Len(open_positions) = max_positions + 1
    /\ open_positions[max_positions].market_id = "market1"
    /\ open_positions[max_positions + 1].market_id = "market2"

\* no key of the weight map is the name of a strategy
NoStrategyHasWeight == DOMAIN weights \cap DOMAIN strategies = {}

\* C27: the bot starts with a weight map keyed by the configuration's keys,
\* none of which is a strategy name; while that is so every market fuses to
\* None and no bet request is sent; the weight map changes only by the
\* update at the end of a completed cycle, which gives it exactly the
\* strategy names as keys, with equal weights when no strategy has trades.
C27_ConfiguredWeightsMatchNoStrategy ==
    /\ []((call.op = "init" /\ open_positions = <<>>)
            => DOMAIN weights = {"momentum", "contrarian"} /\ NoStrategyHasWeight)
    /\ []((Traded /\ NoStrategyHasWeight)
            => call.signal.kind = "None" /\ call.sent = 0 /\ call.ret = "False")
    /\ [][/\ weights' # weights => call'.op = "_update_performance_metrics"
          /\ call'.op = "_update_performance_metrics" =>
                /\ DOMAIN weights' = DOMAIN strategies
                /\ (\A n \in DOMAIN strategies :
                       call'.performance_data[n].total_trades = 0)
                   => \A n \in DOMAIN strategies :
                         weights'[n] = Rat(1, Cardinality(DOMAIN strategies))]_vars

C27_Witness ==
    /\ Traded
    /\ NoStrategyHasWeight
    /\ ~bot.dry_run
    /\ \A n \in DOMAIN call.outcomes : call.outcomes[n].kind = "signal"
    /\ call.market.probability = Pct(30)
    /\ call.signal.kind = "None"
    /\ open_positions = <<>>

\* no step of a cycle removes or changes a position, and every position
\* added has a non-negative amount: the ledger and its exposure only grow
LedgerOnlyGrows ==
    /\ Len(open_positions') >= Len(open_positions)
    /\ \A i \in 1..Len(open_positions) : open_positions'[i] = open_positions[i]
    /\ \A i \in (Len(open_positions) + 1)..Len(open_positions') :
          RGe(open_positions'[i].amount, Zero)

\* C28 as stated: the ledger only grows, and a cycle that starts right after
\* a start at which should_limit_orders was true, with a bankroll that is
\* not greater, finds should_limit_orders true again.
C28_OnceLimitedAlwaysLimited ==
    [][/\ LedgerOnlyGrows
       /\ (/\ call.op = "run_once" /\ call.limited
           /\ call'.op = "run_once" /\ call'.balance.kind = "value"
           /\ RLe(call'.balance.val, call.balance.val))
          => call'.limited]_vars

\* C28 amended: the ledger only grows; when the ledger is over the limit for
\* the bankroll of the last cycle (as it is after a start at which
\* should_limit_orders was true), a cycle starting with a bankroll that is
\* not greater and is positive finds should_limit_orders true; with a
\* bankroll of 0 or less should_limit_orders can be false again, but no bet
\* is requested and no position added in such a cycle.
C28_LimitedWhileBankrollPositive ==
    [][/\ LedgerOnlyGrows
       /\ (/\ call'.op = "run_once" /\ call'.balance.kind = "value"
           /\ OverLimitAt(bot.balance)
           /\ RLe(call'.balance.val, bot.balance)
           /\ RGt(call'.balance.val, Zero))
          => call'.limited /\ bot'.pc = "idle"
       /\ (call'.op = "_analyze_and_trade" /\ RLe(bot.balance, Zero))
          => call'.sent = 0 /\ open_positions' = open_positions]_vars

C28_Witness ==
    /\ call.op = "run_once"
    /\ bot.cycles = 2
    /\ call.balance = Value(Whole(100))
    /\ call.limited
    /\ bot.pc = "idle"
    /\ Len(open_positions) = max_positions - 1
    /\ OverLimitAt(bot.balance)

\* the payout odds of a consensus on a market are a division by zero
OddsUndefined(consensus, market) ==
    \/ consensus.direction = "YES" /\ market_probability(market) = Zero
    \/ consensus.direction = "NO" /\ market_probability(market) = One

\* C29: for a YES consensus on a market at probability 0, or a NO consensus
\* on a market at probability 1, calculate_bet_size raises a division error;
\* the loop of the cycle catches it: no request is sent, the ledger and the
\* weights are unchanged, and the cycle goes on with the remaining markets.
C29_DivisionErrorSkipsOneMarket ==
    [][(/\ call'.op = "_analyze_and_trade"
        /\ CycleConsensus(call'.outcomes).kind = "value"
        /\ OddsUndefined(CycleConsensus(call'.outcomes).val, call'.market))
       => /\ call'.bet_size.kind = "ZeroDivisionError"
          /\ call'.ret = "raise"
          /\ call'.sent = 0
          /\ open_positions' = open_positions
          /\ weights' = weights
          /\ bot'.pc = "markets"
          /\ bot'.open_markets = Tail(bot.open_markets)]_vars

C29_Witness ==
    /\ Traded
    /\ call.ret = "raise"
    /\ call.signal.val.direction = "YES"
    /\ call.market.probability = Zero
    /\ bot.pc = "markets"
    /\ Len(bot.open_markets) = 1
    /\ open_positions # <<>>


====
